---- MODULE Spec2Model ----
(***************************************************************************)
(* Model of the two-tier bounded mesh (raytrace/objects/mesh.rs) and of    *)
(* the BRDF reflection protocol (raytrace/materials/mod.rs).               *)
(*                                                                         *)
(* Scalars of the generic type F: Float are modelled as exact rationals    *)
(* extended with the IEEE special values the code can produce: -0.0,       *)
(* +inf, -inf and NaN (division by a zero direction component, 0 * inf).   *)
(* Rounding of finite values is not modelled.                              *)
(***************************************************************************)
EXTENDS Integers, Sequences, FiniteSets, TLC

VARIABLES
    pc,              \* position of the caller in the operation being run
    \* BoundImpl / PartialBoundImpl
    inner,           \* BoundImpl.inner: [triangles, area]
    bvh,             \* BoundImpl.bvh: the bound_vec given to BVH::new
    partial_bound,   \* PartialBoundImpl: [min_pt, max_pt]
    \* hit / partial_hit
    ray,             \* the ray of the current query (NoRay between queries)
    hit_bound_vec,   \* what bvh.hit(ray) returned, in visiting order
    hit_result,      \* what BoundImpl::hit returned
    partial_result,  \* what PartialBoundImpl::partial_hit returned
    \* sample_triangle
    seed,            \* the value drawn from F::sample_rand()
    sampled_area,    \* the running value of the walk
    walk_idx,        \* number of triangles the walk has visited
    sample_result,   \* index of the returned triangle, 0 while there is none
    prev_seed,       \* seed and result of the previous call (result 0: no
    prev_result,     \* previous call)
    \* BRDFReflector
    incident,        \* [coords, w_i, normal]
    brdf,            \* the concrete strategy implementing the trait
    brdf_seed,       \* the seed given to reflect
    predet_args,     \* [w_r, pdf, seed] given to reflect_predetermined
    predet_result,   \* BRDFIncident returned by reflect_predetermined
    reflect_result,  \* BRDFIncident returned by reflect
    diagnostic       \* whether the last call printed "negative multiplier"

meshVars == <<inner, bvh, partial_bound>>
queryVars == <<ray, hit_bound_vec, hit_result, partial_result>>
sampleVars == <<seed, sampled_area, walk_idx, sample_result, prev_seed, prev_result>>
brdfVars == <<incident, brdf, brdf_seed, predet_args, predet_result, reflect_result,
              diagnostic>>
vars == <<pc, meshVars, queryVars, sampleVars, brdfVars>>

(***************************************************************************)
(* Bounds of the model.                                                    *)
(***************************************************************************)
MaxTriangles == 2       \* triangles per mesh in the intersection model
MaxOriginZ == 2         \* ray origins have z in -1..MaxOriginZ
MaxWalkTriangles == 3   \* triangles per mesh in the sampling model
MaxArea == 2            \* triangle areas in the sampling model are 0..MaxArea
SeedDen == 4            \* uniform samples are j/SeedDen, j in 0..SeedDen-1
MaxPdf == 2             \* sampling densities in the reflection model are 0..MaxPdf

(***************************************************************************)
(* Exact rationals [n, d], d > 0, in lowest terms.                         *)
(***************************************************************************)
Abs(x) == IF x < 0 THEN -x ELSE x

RECURSIVE GCD(_, _)
GCD(a, b) == IF b = 0 THEN a ELSE GCD(b, a % b)

Rat(n, d) ==
    LET s == IF d < 0 THEN -1 ELSE 1
        g == GCD(Abs(n), Abs(d))
    IN  [n |-> (s * n) \div g, d |-> (s * d) \div g]

RInt(i) == [n |-> i, d |-> 1]
RAdd(a, b) == Rat(a.n * b.d + b.n * a.d, a.d * b.d)
RSub(a, b) == Rat(a.n * b.d - b.n * a.d, a.d * b.d)
RMul(a, b) == Rat(a.n * b.n, a.d * b.d)
RDiv(a, b) == Rat(a.n * b.d, a.d * b.n)
RLt(a, b) == a.n * b.d < b.n * a.d
RLe(a, b) == a.n * b.d <= b.n * a.d
RSign(a) == IF a.n < 0 THEN -1 ELSE IF a.n > 0 THEN 1 ELSE 0

(***************************************************************************)
(* F: Float.  k = "fin" is a finite value r (r = 0 is +0.0), "nzero" is    *)
(* -0.0, "pinf"/"ninf" the infinities, "nan" not-a-number.                 *)
(***************************************************************************)
Fin(r) == [k |-> "fin", r |-> r]
FInt(i) == Fin(RInt(i))
NZero == [k |-> "nzero", r |-> RInt(0)]
PInf == [k |-> "pinf", r |-> RInt(0)]
NInf == [k |-> "ninf", r |-> RInt(0)]
NaN == [k |-> "nan", r |-> RInt(0)]

FZero == FInt(0)
FOne == FInt(1)

IsFinite(a) == a.k \in {"fin", "nzero"}
\* sign of a value: -1, 0 or 1 (0 for both zeros); NaN has none
FSign(a) ==
    CASE a.k = "pinf" -> 1
      [] a.k = "ninf" -> -1
      [] OTHER -> RSign(a.r)
\* sign bit, which tells the two zeros apart
FNegative(a) == a.k = "nzero" \/ a.k = "ninf" \/ (a.k = "fin" /\ a.r.n < 0)

\* IEEE comparisons: every comparison with NaN is false, -0.0 = +0.0
FLt(a, b) ==
    /\ a.k # "nan" /\ b.k # "nan"
    /\ \/ IsFinite(a) /\ IsFinite(b) /\ RLt(a.r, b.r)
       \/ a.k = "ninf" /\ b.k # "ninf"
       \/ b.k = "pinf" /\ a.k # "pinf"
FGt(a, b) == FLt(b, a)
FEq(a, b) ==
    /\ a.k # "nan" /\ b.k # "nan"
    /\ \/ IsFinite(a) /\ IsFinite(b) /\ a.r = b.r
       \/ a.k = b.k /\ ~IsFinite(a)
FLe(a, b) == FLt(a, b) \/ FEq(a, b)
FGe(a, b) == FLe(b, a)

\* a + b
FAdd(a, b) ==
    CASE a.k = "nan" \/ b.k = "nan" -> NaN
      [] IsFinite(a) /\ IsFinite(b) ->
            IF a.k = "nzero" /\ b.k = "nzero" THEN NZero ELSE Fin(RAdd(a.r, b.r))
      [] IsFinite(a) -> b
      [] IsFinite(b) -> a
      [] OTHER -> IF a.k = b.k THEN a ELSE NaN
FNeg(a) ==
    CASE a.k = "nan" -> NaN
      [] a.k = "pinf" -> NInf
      [] a.k = "ninf" -> PInf
      [] a.k = "nzero" -> FZero
      [] OTHER -> IF a.r.n = 0 THEN NZero ELSE Fin(RSub(RInt(0), a.r))
FSub(a, b) == FAdd(a, FNeg(b))

\* a * b: 0 * inf is NaN; a zero product carries the sign of the operands
FMul(a, b) ==
    LET neg == FNegative(a) # FNegative(b)
    IN  CASE a.k = "nan" \/ b.k = "nan" -> NaN
          [] IsFinite(a) /\ IsFinite(b) ->
                IF a.r.n = 0 \/ b.r.n = 0
                THEN (IF neg THEN NZero ELSE FZero)
                ELSE Fin(RMul(a.r, b.r))
          [] FSign(a) = 0 \/ FSign(b) = 0 -> NaN
          [] OTHER -> IF neg THEN NInf ELSE PInf

\* a / b: x / +-0 is a signed infinity, 0 / 0 and inf / inf are NaN
FDiv(a, b) ==
    LET neg == FNegative(a) # FNegative(b)
    IN  CASE a.k = "nan" \/ b.k = "nan" -> NaN
          [] ~IsFinite(a) /\ ~IsFinite(b) -> NaN
          [] ~IsFinite(a) -> IF neg THEN NInf ELSE PInf
          [] ~IsFinite(b) -> IF neg THEN NZero ELSE FZero
          [] b.r.n = 0 ->
                IF a.r.n = 0 THEN NaN ELSE (IF neg THEN NInf ELSE PInf)
          [] a.r.n = 0 -> IF neg THEN NZero ELSE FZero
          [] OTHER -> Fin(RDiv(a.r, b.r))

\* Float::max / Float::min: a NaN operand is ignored
FMax(a, b) ==
    CASE a.k = "nan" -> b
      [] b.k = "nan" -> a
      [] OTHER -> IF FLt(a, b) THEN b ELSE a
FMin(a, b) ==
    CASE a.k = "nan" -> b
      [] b.k = "nan" -> a
      [] OTHER -> IF FLt(b, a) THEN b ELSE a

(***************************************************************************)
(* Vector3D over integer coordinates (scene geometry) and over F.          *)
(***************************************************************************)
Axes == {1, 2, 3}
VSub(a, b) == <<a[1] - b[1], a[2] - b[2], a[3] - b[3]>>
IDot(a, b) == a[1] * b[1] + a[2] * b[2] + a[3] * b[3]
ICross(a, b) == <<a[2] * b[3] - a[3] * b[2],
                  a[3] * b[1] - a[1] * b[3],
                  a[1] * b[2] - a[2] * b[1]>>
IMin(a, b) == IF b < a THEN b ELSE a
IMax(a, b) == IF b > a THEN b ELSE a

\* Option<T>: None is the empty sequence, Some(x) the sequence <<x>>
None == <<>>
Some(x) == <<x>>

(***************************************************************************)
(* base::Triangle and base::Mesh (geometric primitives).  A triangle is    *)
(* its three vertices <<v0, v1, v2>>.                                      *)
(***************************************************************************)
vertices(t) == t

\* integer square root of a perfect square
ISqrt(n) == CHOOSE r \in 0..n : r * r = n

\* area(): half the norm of the cross product of two edges
TriArea(t) ==
    LET c == ICross(VSub(t[2], t[1]), VSub(t[3], t[1]))
    IN  Rat(ISqrt(IDot(c, c)), 2)

\* direction component as an exact number (both zeros are 0)
DirInt(c) == IF c.k = "fin" THEN c.r.n ELSE 0
DirVec(r) == <<DirInt(r.direction[1]), DirInt(r.direction[2]),
               DirInt(r.direction[3])>>

\* Triangle::hit: the exact ray/triangle test; the hit distance is the ray
\* parameter t > 0 of the intersection point, None when the ray misses
TriHit(t, r) ==
    LET d == DirVec(r)
        e1 == VSub(t[2], t[1])
        e2 == VSub(t[3], t[1])
        p == ICross(d, e2)
        det == IDot(e1, p)
        s == VSub(r.origin, t[1])
        q == ICross(s, e1)
    IN  IF det = 0 THEN None
        ELSE LET u == Rat(IDot(s, p), det)
                 v == Rat(IDot(d, q), det)
                 tt == Rat(IDot(e2, q), det)
             IN  IF /\ u.n >= 0 /\ v.n >= 0
                    /\ RLe(RAdd(u, v), RInt(1))
                    /\ tt.n > 0
                 THEN Some(tt) ELSE None

RECURSIVE SumAreas(_, _)
\* sum of the areas of triangles 1..k of a sequence
SumAreas(tris, k) ==
    IF k = 0 THEN RInt(0) ELSE RAdd(SumAreas(tris, k - 1), TriArea(tris[k]))

\* Mesh::extreme_pts: the componentwise extremes of all vertices
MeshVertices(tris) == {tris[i][j] : i \in DOMAIN tris, j \in 1..3}
extreme_pts(tris) ==
    LET vs == MeshVertices(tris)
        lo(a) == CHOOSE m \in {v[a] : v \in vs} : \A v \in vs : m <= v[a]
        hi(a) == CHOOSE m \in {v[a] : v \in vs} : \A v \in vs : m >= v[a]
    IN  <<[a \in Axes |-> lo(a)], [a \in Axes |-> hi(a)]>>

(***************************************************************************)
(* Values the variables of the other models keep while one model runs.     *)
(***************************************************************************)
NoRay == [origin |-> <<0, 0, 0>>, direction |-> <<FZero, FZero, FZero>>]
QueryIdle ==
    /\ ray = NoRay
    /\ hit_bound_vec = <<>>
    /\ hit_result = None /\ partial_result = None
SampleIdle ==
    /\ seed = RInt(0) /\ sampled_area = RInt(0) /\ walk_idx = 0
    /\ sample_result = 0 /\ prev_seed = RInt(0) /\ prev_result = 0
BRDFIdle ==
    /\ incident = None /\ brdf = None /\ brdf_seed = RInt(0) /\ predet_args = None
    /\ predet_result = None /\ reflect_result = None /\ diagnostic = FALSE

(***************************************************************************)
(* BoundImpl::sample_triangle (mesh.rs:110-122)                            *)
(***************************************************************************)
\* F::sample_rand(): a uniform sample in [0, 1)
SampleRand == {Rat(j, SeedDen) : j \in 0..(SeedDen - 1)}

\* BoundImpl::area
area == inner.area

\* let mut sampled_area = self.area() * seed
ScaledSampleStale(a, u) == RAdd(sampled_area, RMul(a, u))
ScaledSample(a, u) == RMul(a, u)

\* for triangle in self.inner.triangles(): the triangles in mesh order
WalkOrderReversed(tris) == [i \in DOMAIN tris |-> tris[Len(tris) + 1 - i]]
WalkOrder(tris) == tris

\* if sampled_area <= F::zero()
WalkAcceptsStrict(s) == RLt(s, RInt(0))
WalkAccepts(s) == RLe(s, RInt(0))

SampleTriangleBegin ==
    /\ pc = "idle"
    /\ \E u \in SampleRand :
        /\ seed' = u
        /\ sampled_area' = ScaledSample(area, u)
    /\ walk_idx' = 0
    /\ sample_result' = 0
    /\ pc' = "walk"
    /\ UNCHANGED <<meshVars, queryVars, brdfVars, prev_seed, prev_result>>

\* one iteration of the loop
SampleTriangleStep ==
    /\ pc = "walk"
    /\ walk_idx < Len(inner.triangles)
    /\ LET triangle == WalkOrder(inner.triangles)[walk_idx + 1]
           next == RSub(sampled_area, TriArea(triangle))
       IN  /\ sampled_area' = next
           /\ walk_idx' = walk_idx + 1
           /\ IF WalkAccepts(next)
              THEN /\ sample_result' = walk_idx + 1
                   /\ pc' = "done"
              ELSE /\ sample_result' = sample_result
                   /\ pc' = "walk"
    /\ UNCHANGED <<meshVars, queryVars, brdfVars, seed, prev_seed, prev_result>>

\* the loop ran out of triangles: unreachable!("congratulations")
SampleTriangleUnreachable ==
    /\ pc = "walk"
    /\ walk_idx = Len(inner.triangles)
    /\ pc' = "abort"
    /\ UNCHANGED <<meshVars, queryVars, brdfVars, sampleVars>>

\* the caller takes the triangle and may sample again
SampleTriangleReturn ==
    /\ pc = "done"
    /\ prev_seed' = seed
    /\ prev_result' = sample_result
    /\ pc' = "idle"
    /\ UNCHANGED <<meshVars, queryVars, brdfVars, seed, sampled_area, walk_idx,
                   sample_result>>

\* meshes of the sampling model: right triangles of area 0..MaxArea, and a
\* total area that is the sum of the triangles' areas up to a drift
WalkTriangle(a) == <<(<<0, 0, 0>>), (<<a, 0, 0>>), (<<0, 2, 0>>)>>
RECURSIVE SeqsUpTo(_, _)
SeqsUpTo(S, n) ==
    IF n = 0 THEN {<<>>}
    ELSE LET shorter == SeqsUpTo(S, n - 1)
         IN  shorter \cup {Append(q, x) : q \in shorter, x \in S}
WalkMeshes == SeqsUpTo({WalkTriangle(a) : a \in 0..MaxArea}, MaxWalkTriangles)
AreaDrift == {-1, 0, 1}

SampleInit ==
    /\ pc = "idle"
    /\ \E tris \in WalkMeshes, drift \in AreaDrift :
        LET total == RAdd(SumAreas(tris, Len(tris)), RInt(drift))
        IN  /\ total.n >= 0
            /\ inner = [triangles |-> tris, area |-> total]
    /\ bvh = <<>> /\ partial_bound = None
    /\ QueryIdle /\ SampleIdle /\ BRDFIdle

SampleNext ==
    \/ SampleTriangleBegin
    \/ SampleTriangleStep
    \/ SampleTriangleUnreachable
    \/ SampleTriangleReturn

SampleSpec == SampleInit /\ [][SampleNext]_vars

(***************************************************************************)
(* Properties of sample_triangle, checked under SampleSpec.                *)
(***************************************************************************)
NumTriangles == Len(inner.triangles)
TotalOfTriangles == SumAreas(inner.triangles, NumTriangles)
\* u * A minus the areas of the first k triangles of the mesh
RunningValue(k) == RSub(RMul(inner.area, seed), SumAreas(inner.triangles, k))
NonPositive(k) == RLe(RunningValue(k), RInt(0))

\* C6: sample_triangle returns the triangle at the smallest index k for which
\* u*A minus the areas of the triangles up to k is non-positive, it aborts
\* (returning no triangle) when there is no such k, and so, when A is the sum
\* of the areas, triangle k is selected exactly by the u with u*A in
\* (areas before k, areas up to k], an interval of measure area_k / A.
C6_SmallestNonPositiveIndex ==
    /\ pc = "done" =>
        /\ sample_result \in 1..NumTriangles
        /\ NonPositive(sample_result)
        /\ \A j \in 1..(sample_result - 1) : ~NonPositive(j)
    /\ pc = "abort" =>
        /\ sample_result = 0
        /\ \A k \in 1..NumTriangles : ~NonPositive(k)
    /\ (pc = "done" /\ inner.area = TotalOfTriangles) =>
        LET uA == RMul(inner.area, seed)
            k == sample_result
        IN  /\ RLe(uA, SumAreas(inner.triangles, k))
            /\ k > 1 => RLt(SumAreas(inner.triangles, k - 1), uA)
            /\ \A u \in SampleRand :
                 (/\ RLe(RMul(inner.area, u), SumAreas(inner.triangles, k))
                  /\ RLt(SumAreas(inner.triangles, k - 1), RMul(inner.area, u)))
                 => \A j \in 1..NumTriangles :
                      (/\ RLe(RMul(inner.area, u), SumAreas(inner.triangles, j))
                       /\ \A i \in 1..(j - 1) :
                            RLt(SumAreas(inner.triangles, i), RMul(inner.area, u)))
                      => j = k

C6_Witness ==
    /\ pc = "done"
    /\ sample_result >= 2
    /\ inner.area = TotalOfTriangles
    /\ TriArea(inner.triangles[1]).n > 0

C10_WalkTerminates ==
    /\ (NumTriangles >= 1 /\ inner.area = TotalOfTriangles) =>
        /\ pc # "abort"
        /\ pc = "walk" => walk_idx < NumTriangles
        /\ pc = "done" => walk_idx <= NumTriangles /\ sample_result = walk_idx
    /\ pc = "abort" =>
        \/ RLt(TotalOfTriangles, inner.area)
        \/ NumTriangles = 0

C10_Witness ==
    /\ pc = "done"
    /\ NumTriangles >= 2
    /\ walk_idx = NumTriangles
    /\ inner.area = TotalOfTriangles
    /\ RunningValue(NumTriangles).n < 0

(***************************************************************************)
(* BRDFReflector (materials/mod.rs:27-86).  f_r and sample_reflected are   *)
(* required methods: a strategy is an albedo, which its reflectance        *)
(* scales by 1 + seed when `seeded`, and a table of directions and         *)
(* densities from which it samples by seed.                                *)
(***************************************************************************)
Ones == <<RInt(1), RInt(1), RInt(1)>>
Directions == <<(<<0, 0, 1>>), (<<0, 1, 1>>), (<<0, 0, -1>>), (<<1, 0, 0>>)>>
Pdfs == {Rat(p, 2) : p \in -1..MaxPdf}
Albedos == {<<1, 1, 1>>, <<0, 1, 1>>, <<1, -1, 1>>, <<2, 1, 0>>}
Strategies == [albedo : Albedos, seeded : BOOLEAN]

\* the numerator j of a seed j/SeedDen
SeedIndex(u) == (u.n * SeedDen) \div u.d

f_r(b, coords, w_i, w_r, normal, u) ==
    [c \in Axes |->
        RMul(RInt(b.albedo[c]), IF b.seeded THEN RAdd(RInt(1), u) ELSE RInt(1))]

sample_reflected(b, coords, w_i, normal, u) ==
    <<Directions[(SeedIndex(u) % Len(Directions)) + 1],
      Rat(SeedIndex(u) % (MaxPdf + 1), 2)>>

\* let multiplier = if pdf == F::zero() { (1, 1, 1) } else { f_r * w_r.dot(normal) / pdf }
MultiplierNoDensity(fr, w_r, normal, pdf) ==
    IF pdf = RInt(0) THEN Ones
    ELSE [c \in Axes |-> RMul(fr[c], RInt(IDot(w_r, normal)))]
Multiplier(fr, w_r, normal, pdf) ==
    IF pdf = RInt(0) THEN Ones
    ELSE [c \in Axes |-> RDiv(RMul(fr[c], RInt(IDot(w_r, normal))), pdf)]

\* if multiplier.x < F::zero() { println!("negative multiplier") }
PrintsNegativeMultiplier(multiplier) == multiplier[1].n < 0

\* the BRDFIncident built by reflect_predetermined
BRDFIncidentOf(b, inc, w_r, pdf, u) ==
    LET fr == f_r(b, inc.coords, inc.w_i, w_r, inc.normal, u)
    IN  [f_r |-> fr, w_r |-> w_r, pdf |-> pdf,
         multiplier |-> Multiplier(fr, w_r, inc.normal, pdf)]

\* what reflect hands to reflect_predetermined: [w_r, pdf, seed]
ReflectForwardsStaleSeed(b, inc, u) ==
    LET s == sample_reflected(b, inc.coords, inc.w_i, inc.normal, u)
    IN  [w_r |-> s[1], pdf |-> s[2], seed |-> brdf_seed]
ReflectForwards(b, inc, u) ==
    LET s == sample_reflected(b, inc.coords, inc.w_i, inc.normal, u)
    IN  [w_r |-> s[1], pdf |-> s[2], seed |-> u]

\* the caller may pass any direction and density, after a call of reflect
\* or without one
ReflectPredetermined ==
    /\ pc \in {"idle", "reflect"}
    /\ \E i \in DOMAIN Directions, pdf \in Pdfs, u \in SampleRand :
        LET w_r == Directions[i]
            res == BRDFIncidentOf(brdf, incident[1], w_r, pdf, u)
        IN  /\ predet_args' = Some([w_r |-> w_r, pdf |-> pdf, seed |-> u])
            /\ predet_result' = Some(res)
            /\ diagnostic' = PrintsNegativeMultiplier(res.multiplier)
    /\ pc' = "reflect_predetermined"
    /\ UNCHANGED <<meshVars, queryVars, sampleVars, incident, brdf, brdf_seed,
                   reflect_result>>

Reflect ==
    /\ pc = "idle"
    /\ \E u \in SampleRand :
        LET a == ReflectForwards(brdf, incident[1], u)
            res == BRDFIncidentOf(brdf, incident[1], a.w_r, a.pdf, a.seed)
        IN  /\ brdf_seed' = u
            /\ reflect_result' = Some(res)
            /\ diagnostic' = PrintsNegativeMultiplier(res.multiplier)
    /\ pc' = "reflect"
    /\ UNCHANGED <<meshVars, queryVars, sampleVars, incident, brdf, predet_args,
                   predet_result>>

Incidents ==
    [coords : {<<0, 0, 0>>}, w_i : {<<0, 0, -1>>, <<1, 0, -1>>},
     normal : {<<0, 0, 1>>, <<0, 1, 0>>}]

BRDFInit ==
    /\ pc = "idle"
    /\ inner = None /\ bvh = <<>> /\ partial_bound = None
    /\ QueryIdle /\ SampleIdle
    /\ \E inc \in Incidents, b \in Strategies :
        /\ incident = Some(inc)
        /\ brdf = b
    /\ brdf_seed = RInt(0) /\ predet_args = None
    /\ predet_result = None /\ reflect_result = None /\ diagnostic = FALSE

BRDFNext ==
    \/ ReflectPredetermined
    \/ Reflect

BRDFSpec == BRDFInit /\ [][BRDFNext]_vars

(***************************************************************************)
(* Properties of the reflection protocol, checked under BRDFSpec.          *)
(***************************************************************************)
\* C3: reflect_predetermined returns the evaluated reflectance and its
\* arguments w_r and pdf unchanged; for pdf > 0 each channel of the multiplier
\* times pdf is that channel of f_r times (w_r . normal), and for pdf = 0 the
\* multiplier is (1, 1, 1).
C3_MultiplierFormula ==
    pc = "reflect_predetermined" =>
        LET a == predet_args[1]
            r == predet_result[1]
            inc == incident[1]
            cos == RInt(IDot(a.w_r, inc.normal))
        IN  /\ r.f_r = f_r(brdf, inc.coords, inc.w_i, a.w_r, inc.normal, a.seed)
            /\ r.w_r = a.w_r
            /\ r.pdf = a.pdf
            /\ a.pdf.n > 0 =>
                 \A c \in Axes : RMul(r.multiplier[c], a.pdf) = RMul(r.f_r[c], cos)
            /\ a.pdf.n = 0 => r.multiplier = Ones

C3_Witness ==
    /\ pc = "reflect_predetermined"
    /\ predet_args[1].pdf = Rat(1, 2)
    /\ predet_args[1].seed.n > 0
    /\ brdf.seeded
    /\ predet_result[1].multiplier[1].n > 2

\* C4: whenever a channel of the multiplier computed by
\* reflect_predetermined is negative, the diagnostic is printed (and the
\* BRDFIncident is returned all the same).
C4_AnyNegativeChannelDiagnosed ==
    pc = "reflect_predetermined" =>
        /\ predet_result # None
        /\ (\E c \in Axes : predet_result[1].multiplier[c].n < 0) => diagnostic

\* C5: reflect(incident, seed) returns the BRDFIncident that
\* reflect_predetermined(incident, w_r, pdf, seed) returns for
\* (w_r, pdf) = sample_reflected(coords, w_i, normal, seed).
C5_ReflectIsComposition ==
    (/\ pc = "reflect_predetermined"
     /\ reflect_result # None
     /\ predet_args[1].seed = brdf_seed
     /\ <<predet_args[1].w_r, predet_args[1].pdf>> =
            sample_reflected(brdf, incident[1].coords, incident[1].w_i,
                             incident[1].normal, brdf_seed))
    => reflect_result = predet_result

C5_Witness ==
    /\ pc = "reflect_predetermined"
    /\ reflect_result # None
    /\ brdf.seeded
    /\ brdf_seed.n > 0
    /\ predet_args[1].seed = brdf_seed
    /\ <<predet_args[1].w_r, predet_args[1].pdf>> =
           sample_reflected(brdf, incident[1].coords, incident[1].w_i,
                            incident[1].normal, brdf_seed)
    /\ predet_args[1].pdf.n > 0

(***************************************************************************)
(* Mesh::new, BoundImpl::new, PartialBoundImpl::new (mesh.rs:20-79,        *)
(* 131-140)                                                                *)
(***************************************************************************)
\* let epsilon = F::from(0.1).unwrap()
PadEpsilon == Rat(1, 10)

Min3(a, b, c) == IMin(a, IMin(b, c))
Max3(a, b, c) == IMax(a, IMax(b, c))

\* min_pt: the componentwise minimum of the vertices, minus epsilon
PaddedMin(t) ==
    [a \in Axes |-> RSub(RInt(Min3(t[1][a], t[2][a], t[3][a])), PadEpsilon)]
\* max_pt: the componentwise maximum of the vertices, plus epsilon
PaddedMaxShrunk(t) ==
    [a \in Axes |-> RSub(RInt(Max3(t[1][a], t[2][a], t[3][a])), PadEpsilon)]
PaddedMax(t) ==
    [a \in Axes |-> RAdd(RInt(Max3(t[1][a], t[2][a], t[3][a])), PadEpsilon)]

\* GenericBound::new(i, min_pt, max_pt)
GenericBound(i, min_pt, max_pt) == [id |-> i, min_pt |-> min_pt, max_pt |-> max_pt]

\* the bound_vec built by the loop over 0..inner.triangles().len(); the
\* triangle with identifier i is the (i+1)-th element of the sequence
BoundVec(tris) ==
    [k \in 1..Len(tris) |->
        LET t == vertices(tris[k])
        IN  GenericBound(k - 1, PaddedMin(t), PaddedMax(t))]

\* BVH::new(bound_vec): the index owns the bounds it was built from
BVHNew(bound_vec) == bound_vec

PartialBoundNew(tris) ==
    LET e == extreme_pts(tris)
    IN  [min_pt |-> e[1], max_pt |-> e[2]]

MeshNew ==
    /\ pc = "new"
    /\ partial_bound' = Some(PartialBoundNew(inner.triangles))
    /\ bvh' = BVHNew(BoundVec(inner.triangles))
    /\ pc' = "ready"
    /\ UNCHANGED <<inner, queryVars, sampleVars, brdfVars>>

(***************************************************************************)
(* PartialBoundImpl::partial_hit (mesh.rs:143-191)                         *)
(***************************************************************************)
\* let epsilon = F::from(1e-4f32).unwrap()
HitEpsilon == Fin(Rat(1, 10000))

\* (t_min, t_max) of one axis
AxisSlab(pb, r, a) ==
    LET inv_dir == FDiv(FOne, r.direction[a])
        o == FInt(r.origin[a])
    IN  IF FGe(r.direction[a], FZero)
        THEN <<FMul(FSub(FInt(pb.min_pt[a]), o), inv_dir),
               FMul(FSub(FInt(pb.max_pt[a]), o), inv_dir)>>
        ELSE <<FMul(FSub(FInt(pb.max_pt[a]), o), inv_dir),
               FMul(FSub(FInt(pb.min_pt[a]), o), inv_dir)>>

t_enter(pb, r) ==
    FMax(AxisSlab(pb, r, 1)[1], FMax(AxisSlab(pb, r, 2)[1], AxisSlab(pb, r, 3)[1]))
t_exit(pb, r) ==
    FMin(AxisSlab(pb, r, 1)[2], FMin(AxisSlab(pb, r, 2)[2], AxisSlab(pb, r, 3)[2]))

partial_hit(pb, r) ==
    /\ FLt(t_enter(pb, r), FAdd(t_exit(pb, r), HitEpsilon))
    /\ FGt(t_exit(pb, r), FZero)

(***************************************************************************)
(* BoundImpl::hit (mesh.rs:87-108)                                         *)
(***************************************************************************)
\* F::max_value(); every distance of the model is a finite value below it
MaxValue == [k |-> "max", r |-> RInt(0)]

\* incident.distance() < min_distance
DistanceLessOrEqual(d, m) == m.k = "max" \/ RLe(d, m.r)
DistanceLess(d, m) == m.k = "max" \/ RLt(d, m.r)

\* self.inner.triangles()[id].hit(ray): the Incident of triangle id
TriangleIncident(tris, id, r) ==
    LET h == TriHit(tris[id + 1], r)
    IN  IF h = None THEN None
        ELSE Some([triangle |-> id, distance |-> h[1]])

RECURSIVE HitScan(_, _, _, _)
\* the loop over hit_bound_vec after its first k elements:
\* [min_incident, min_distance]
HitScan(tris, cands, r, k) ==
    IF k = 0 THEN [min_incident |-> None, min_distance |-> MaxValue]
    ELSE LET before == HitScan(tris, cands, r, k - 1)
             inc == TriangleIncident(tris, cands[k].id, r)
         IN  IF inc # None /\ DistanceLess(inc[1].distance, before.min_distance)
             THEN [min_incident |-> inc, min_distance |-> Fin(inc[1].distance)]
             ELSE before

hit(tris, cands, r) ==
    IF cands = <<>> THEN None
    ELSE HitScan(tris, cands, r, Len(cands)).min_incident

\* BVH::hit(ray): the bounds the broad phase reports, in the order it reports
\* them: every bound whose triangle the ray hits, and possibly others
RECURSIVE Orderings(_)
Orderings(S) ==
    IF S = {} THEN {<<>>}
    ELSE UNION {{<<x>> \o q : q \in Orderings(S \ {x})} : x \in S}
ExactHits(tris, r) == {k \in DOMAIN tris : TriHit(tris[k], r) # None}
BVHHit(index, tris, r) ==
    UNION {Orderings({index[k] : k \in K}) :
              K \in {K \in SUBSET DOMAIN index : ExactHits(tris, r) \subseteq K}}

\* the scene of the intersection model
TriangleA == <<(<<0, 0, 0>>), (<<3, 0, 0>>), (<<0, 3, 0>>)>>
TriangleB == <<(<<0, 0, 1>>), (<<3, 0, 1>>), (<<0, 3, 1>>)>>
TriangleC == <<(<<0, 0, 0>>), (<<3, 0, 0>>), (<<0, 3, 4>>)>>
Meshes == SeqsUpTo({TriangleA, TriangleB, TriangleC}, MaxTriangles) \ {<<>>}

DirComponents == {FInt(-1), NZero, FZero, FInt(1)}
Rays ==
    {r \in [origin : {<<1, y, z>> : y \in {0, 1}, z \in -1..MaxOriginZ},
            direction : [Axes -> DirComponents]] :
        \E a \in Axes : DirInt(r.direction[a]) # 0}

\* the caller casts a ray: the coarse test first
PartialHit ==
    /\ pc = "ready"
    /\ \E r \in Rays :
        /\ ray' = r
        /\ partial_result' = Some(partial_hit(partial_bound[1], r))
    /\ pc' = "partial_hit"
    /\ UNCHANGED <<meshVars, hit_bound_vec, hit_result, sampleVars, brdfVars>>

\* then the exact test of the same ray
Hit ==
    /\ pc = "partial_hit"
    /\ \E cands \in BVHHit(bvh, inner.triangles, ray) :
        /\ hit_bound_vec' = cands
        /\ hit_result' = hit(inner.triangles, cands, ray)
    /\ pc' = "hit"
    /\ UNCHANGED <<meshVars, ray, partial_result, sampleVars, brdfVars>>

\* the caller drops the results and casts the next ray
NextRay ==
    /\ pc = "hit"
    /\ ray' = NoRay
    /\ hit_bound_vec' = <<>>
    /\ hit_result' = None
    /\ partial_result' = None
    /\ pc' = "ready"
    /\ UNCHANGED <<meshVars, sampleVars, brdfVars>>

Init ==
    /\ pc = "new"
    /\ \E tris \in Meshes :
        inner = [triangles |-> tris, area |-> SumAreas(tris, Len(tris))]
    /\ bvh = <<>> /\ partial_bound = None
    /\ QueryIdle /\ SampleIdle /\ BRDFIdle

Next ==
    \/ MeshNew
    \/ PartialHit
    \/ Hit
    \/ NextRay

Spec == Init /\ [][Next]_vars

(***************************************************************************)
(* Properties of construction, hit and partial_hit, checked under Spec.    *)
(***************************************************************************)
\* the triangles (as positions in the mesh) whose exact test the ray passes
Hits == ExactHits(inner.triangles, ray)
HitDistance(k) == TriHit(inner.triangles[k], ray)[1]
\* positions in hit_bound_vec of the candidates that hit at distance d
VisitedAt(d) ==
    {j \in DOMAIN hit_bound_vec :
        /\ hit_bound_vec[j].id + 1 \in Hits
        /\ HitDistance(hit_bound_vec[j].id + 1) = d}

\* C1: hit returns None exactly when no triangle's exact test succeeds;
\* otherwise the Incident is the hit of one of the triangles, no farther than
\* any other successful hit, whatever the order of the candidates, and among
\* the candidates at that distance it is the first one visited.
C1_NearestHitFirstSeen ==
    pc = "hit" =>
        /\ (hit_result = None) <=> (Hits = {})
        /\ hit_result # None =>
            LET inc == hit_result[1]
            IN  /\ inc.triangle + 1 \in Hits
                /\ inc.distance = HitDistance(inc.triangle + 1)
                /\ \A k \in Hits : RLe(inc.distance, HitDistance(k))
                /\ \E j \in VisitedAt(inc.distance) :
                    /\ hit_bound_vec[j].id = inc.triangle
                    /\ \A i \in VisitedAt(inc.distance) : j <= i

C1_Witness ==
    /\ pc = "hit"
    /\ hit_result # None
    /\ \E j1, j2, j3 \in DOMAIN hit_bound_vec :
        /\ j1 < j2
        /\ {j1, j2} \subseteq VisitedAt(hit_result[1].distance)
        /\ hit_bound_vec[j1].id > hit_bound_vec[j2].id
        /\ hit_bound_vec[j1].id = hit_result[1].triangle

\* C2: when partial_hit returns false for a ray, hit returns None for it.
C2_CoarseRejectionIsSound ==
    (pc = "hit" /\ partial_result = Some(FALSE)) => hit_result = None

\* C8: partial_hit computes on each axis an entry and an exit with
\* entry <= exit, returns true exactly when the largest entry is below the
\* smallest exit plus epsilon and the smallest exit is positive, and so
\* rejects a box that lies entirely behind the ray origin.
C8_SlabTest ==
    pc \in {"partial_hit", "hit"} =>
        LET pb == partial_bound[1]
            entry(a) == AxisSlab(pb, ray, a)[1]
            exit(a) == AxisSlab(pb, ray, a)[2]
            maxEntry == CHOOSE e \in {entry(a) : a \in Axes} :
                            \A a \in Axes : FLe(entry(a), e)
            minExit == CHOOSE e \in {exit(a) : a \in Axes} :
                            \A a \in Axes : FLe(e, exit(a))
            behind == \E a \in Axes :
                        \/ DirInt(ray.direction[a]) > 0 /\ pb.max_pt[a] < ray.origin[a]
                        \/ DirInt(ray.direction[a]) < 0 /\ pb.min_pt[a] > ray.origin[a]
        IN  /\ \A a \in Axes : FLe(entry(a), exit(a))
            /\ partial_result[1] <=>
                 (FLt(maxEntry, FAdd(minExit, HitEpsilon)) /\ FGt(minExit, FZero))
            /\ behind => ~partial_result[1]

\* C9: after construction the index holds one bound per triangle, the
\* identifiers are exactly 0..N-1, each used once, and the bound with
\* identifier i is the box of triangle i's vertices grown by 0.1 on every
\* side, so that it contains the vertices; hit and partial_hit change
\* neither the index nor the mesh.
IndexMatchesMesh ==
    LET tris == inner.triangles
        n == Len(tris)
    IN  /\ Len(bvh) = n
        /\ {bvh[k].id : k \in DOMAIN bvh} = 0..(n - 1)
        /\ \A i \in 0..(n - 1) :
            /\ Cardinality({k \in DOMAIN bvh : bvh[k].id = i}) = 1
            /\ \A k \in DOMAIN bvh : bvh[k].id = i =>
                \A a \in Axes :
                    LET cs == {tris[i + 1][j][a] : j \in 1..3}
                        lo == CHOOSE m \in cs : \A c \in cs : m <= c
                        hi == CHOOSE m \in cs : \A c \in cs : m >= c
                    IN  /\ bvh[k].min_pt[a] = Rat(10 * lo - 1, 10)
                        /\ bvh[k].max_pt[a] = Rat(10 * hi + 1, 10)
                        /\ \A c \in cs : /\ RLt(bvh[k].min_pt[a], RInt(c))
                                         /\ RLt(RInt(c), bvh[k].max_pt[a])

C9_IndexBuiltOnce ==
    /\ [](pc # "new" => IndexMatchesMesh)
    /\ [][pc # "new" => (bvh' = bvh /\ inner' = inner)]_vars

C9_Witness ==
    /\ pc = "hit"
    /\ Len(bvh) >= 2
    /\ inner.triangles[1] # inner.triangles[2]
    /\ hit_result # None

====
